---- MODULE Spec2Model ----
(***************************************************************************)
(* ChannelInviteModal (webapp/channels/src/components/channel_invite_modal) *)
(* as a state machine: the props the host supplies, the component state,   *)
(* React's queue of pending setState updates, the debounce timer of        *)
(* search, and the asynchronous calls in flight.                           *)
(*                                                                         *)
(* A JavaScript object is its reference, a number, and obj maps each       *)
(* reference to the contents of the object: two objects with equal         *)
(* contents and different references are different objects, as for         *)
(* indexOf, Set and === in the source.  A string is a sequence of          *)
(* one-character strings.                                                  *)
(***************************************************************************)
EXTENDS Integers, Sequences, FiniteSets, TLC

VARIABLES
    props,      \* this.props
    state,      \* this.state, as last rendered
    queue,      \* the setState updates React has not applied yet
    timer,      \* searchTimeoutId and the timeouts that are pending
    inflight,   \* the promises of the actions that have not settled
    calls,      \* the calls made to props.actions and props.onAddCallback
    hist,       \* the last calls of the selection handlers
    burst       \* the search calls since the debounce timer last was idle

vars == <<props, state, queue, timer, inflight, calls, hist, burst>>

(***************************************************************************)
(* Program constants.                                                      *)
(***************************************************************************)
USERS_PER_PAGE == 50
USERS_FROM_DMS == 10
MAX_USERS == 25

(***************************************************************************)
(* Bounds of the model.                                                    *)
(***************************************************************************)
\* user objects 1..NUsers of the directory the pools are drawn from
NUsers == 30
\* copies (same contents, other reference) of the first users
NClones == 2
\* how far a pool may exceed the cap that applies to it
Over == 2
\* pending setState updates
MaxQueue == 2
\* length of the selected list and of the two not-in-team lists
MaxValues == 2
\* external calls recorded
MaxCalls == 4
\* timeouts set by search
MaxTimers == 3
\* promises in flight
MaxInflight == 2
\* users the selection handlers are called with
NSel == 2
\* pages handlePageChange is called with: 0..MaxPage
MaxPage == 3
\* external calls recorded while paging
MaxPageCalls == 9

(***************************************************************************)
(* Strings.                                                                *)
(***************************************************************************)
Digit == <<"0", "1", "2", "3", "4", "5", "6", "7", "8", "9">>
Alpha == <<"a", "b", "A", "B">>

\* String.prototype.toLowerCase, one character
LowerChar(c) == IF c = "A" THEN "a" ELSE IF c = "B" THEN "b" ELSE c

toLowerCase(s) == [i \in 1..Len(s) |-> LowerChar(s[i])]

\* String.prototype.startsWith
startsWith(s, t) == Len(t) <= Len(s) /\ SubSeq(s, 1, Len(t)) = t

\* the code unit order of the characters used
CharOrd(c) ==
    CASE c = " " -> 0
      [] c = "A" -> 1
      [] c = "B" -> 2
      [] c = "a" -> 3
      [] c = "b" -> 4
      [] OTHER -> 5

RECURSIVE StrLeq(_, _)
\* s <= t in the lexicographic order of the characters
StrLeq(s, t) ==
    IF s = <<>> THEN TRUE
    ELSE IF t = <<>> THEN FALSE
    ELSE IF CharOrd(s[1]) < CharOrd(t[1]) THEN TRUE
    ELSE IF CharOrd(s[1]) > CharOrd(t[1]) THEN FALSE
    ELSE StrLeq(Tail(s), Tail(t))

RECURSIVE trimStart(_)
trimStart(s) == IF s # <<>> /\ s[1] = " " THEN trimStart(Tail(s)) ELSE s

RECURSIVE trimEnd(_)
trimEnd(s) ==
    IF s # <<>> /\ s[Len(s)] = " " THEN trimEnd(SubSeq(s, 1, Len(s) - 1)) ELSE s

\* String.prototype.trim
trim(s) == trimEnd(trimStart(s))

(***************************************************************************)
(* Sequences as JavaScript arrays.                                         *)
(***************************************************************************)
Range(s) == {s[i] : i \in 1..Len(s)}

\* Array.prototype.slice(0, n)
slice0(array, n) ==
    CHOOSE sliced \in {IF Len(s) <= n THEN s ELSE SubSeq(s, 1, n) : s \in {array}} : TRUE

\* Array.prototype.indexOf(x) !== -1
Includes(s, x) == \E i \in 1..Len(s) : s[i] = x

\* arr.splice(arr.indexOf(x), 1) when x is in arr
SpliceOut(s, x) ==
    IF ~Includes(s, x) THEN s
    ELSE LET i == CHOOSE k \in 1..Len(s) : s[k] = x /\ \A j \in 1..(k - 1) : s[j] # x
         IN  SubSeq(s, 1, i - 1) \o SubSeq(s, i + 1, Len(s))

\* the indices of s at which an object occurs for the first time
FirstOccurrences(s) ==
    LET First(i) == \A j \in 1..(i - 1) : s[j] # s[i]
    IN  SelectSeq([i \in 1..Len(s) |-> i], First)

\* Array.from(new Set(array)): the first occurrence of each object, in order
Uniq(array) ==
    CHOOSE unique \in {[k \in 1..Len(firsts) |-> s[firsts[k]]] :
                          <<s, firsts>> \in {<<t, FirstOccurrences(t)>> : t \in {array}}} : TRUE

(***************************************************************************)
(* The objects: UserProfile and Group values.                              *)
(***************************************************************************)
DeletedRefs == {2, 22}
GuestRefs == {2, 3}

UserRefs == 1..NUsers
CloneRefs == (NUsers + 1)..(NUsers + NClones)
GroupRefs == {NUsers + NClones + 1, NUsers + NClones + 2}

\* the user whose contents the object r holds: a clone holds those of r - NUsers
Orig(r) == IF r \in CloneRefs THEN r - NUsers ELSE r

UserId(n) == <<Digit[((n \div 10) % 10) + 1], Digit[(n % 10) + 1]>>

User(r) ==
    LET n == Orig(r)
    IN  [id |-> UserId(n),
         username |-> <<Alpha[(n % 4) + 1], Alpha[((n \div 4) % 4) + 1]>>,
         nickname |-> <<Alpha[((n \div 2) % 4) + 1]>>,
         delete_at |-> IF n \in DeletedRefs THEN 1 ELSE 0,
         roles |-> IF n \in GuestRefs THEN "system_guest" ELSE "system_user"]

Group(r) ==
    LET k == r - (NUsers + NClones)
    IN  [id |-> <<"g", Digit[k + 1]>>,
         name |-> <<Alpha[k], Alpha[1]>>,
         member_ids |-> <<UserId(k), UserId(k + 2)>>]

\* the contents of the objects
obj == [r \in UserRefs \cup CloneRefs \cup GroupRefs |->
           IF r \in GroupRefs THEN Group(r) ELSE User(r)]

\* 'username' in value
IsUser(v) == "username" \in DOMAIN obj[v]

\* the n user objects of the directory from the s-th on, wrapping around
Window(s, n) == [i \in 1..n |-> ((s + i - 2) % (NUsers + NClones)) + 1]

Reverse(s) == [i \in 1..Len(s) |-> s[Len(s) + 1 - i]]

\* an optional mapping the host gives: Object.values of it
Given(values) == [defined |-> TRUE, values |-> values]
\* the host passes null for it
Null == [defined |-> FALSE, values |-> <<>>]

(***************************************************************************)
(* Helpers the component imports.                                          *)
(***************************************************************************)
\* isGuest(roles), mattermost-redux/utils/user_utils
isGuest(roles) == roles = "system_guest"

\* filterProfilesStartingWithTerm, mattermost-redux/utils/user_utils:
\* case-insensitive prefix match on username or display name
filterProfilesStartingWithTerm(users, term) ==
    LET lowercasedTerm == toLowerCase(term)
        Matches(u) == \/ startsWith(toLowerCase(obj[u].username), lowercasedTerm)
                      \/ startsWith(toLowerCase(obj[u].nickname), lowercasedTerm)
    IN  SelectSeq(users, Matches)

\* filterGroupsMatchingTerm, mattermost-redux/utils/group_utils:
\* case-insensitive prefix match on the group's name
filterGroupsMatchingTerm(groups, term) ==
    LET lowercasedTerm == toLowerCase(term)
        Matches(g) == startsWith(toLowerCase(obj[g].name), lowercasedTerm)
    IN  SelectSeq(groups, Matches)

\* the text sortUsersAndGroups compares: username of a user, name of a group
sortString == [v \in DOMAIN obj |->
                  toLowerCase(IF IsUser(v) THEN obj[v].username ELSE obj[v].name)]

\* how many objects have a text that comes before that of v
sortRank == [v \in DOMAIN obj |->
                Cardinality({w \in DOMAIN obj : /\ sortString[w] # sortString[v]
                                                /\ StrLeq(sortString[w], sortString[v])})]

\* sortUsersAndGroups(a, b), utils/utils: negative, zero or positive as the
\* text of a comes before, is or comes after the text of b
sortUsersAndGroups(a, b) ==
    IF sortRank[a] = sortRank[b] THEN 0
    ELSE IF sortRank[a] < sortRank[b] THEN -1 ELSE 1

\* where each element of s comes in the stable sort of s: behind those that
\* sort before it and those equal to it that stood before it
SortPlaces(s) ==
    LET Ahead(j, i) == IF j < i THEN sortUsersAndGroups(s[j], s[i]) <= 0
                       ELSE sortUsersAndGroups(s[j], s[i]) < 0
    IN  [i \in 1..Len(s) |-> Cardinality({j \in 1..Len(s) : Ahead(j, i)}) + 1]

\* Array.prototype.sort(sortUsersAndGroups), which is stable
StableSort(array) ==
    CHOOSE sorted \in {[k \in 1..Len(s) |-> s[CHOOSE i \in 1..Len(s) : place[i] = k]] :
                          <<s, place>> \in {<<t, SortPlaces(t)>> : t \in {array}}} : TRUE

\* users.map((user) => user.id)
Ids(s) == [i \in 1..Len(s) |-> obj[s[i]].id]

\* new Set(iterable) of a string: its characters
SetOfString(s) == {<<s[i]>> : i \in 1..Len(s)}

(***************************************************************************)
(* getOptions and what it calls.                                           *)
(***************************************************************************)
\* SetOfSpread as a set of the ids of profilesNotInCurrentTeam alone
SetOfSpreadNotInTeam(notInTeamIds, excludedIds) == Range(notInTeamIds)

\* new Set(...notInTeamIds, excludedIds): Set takes its first argument only
SetOfSpread(notInTeamIds, excludedIds) ==
    IF notInTeamIds # <<>> THEN SetOfString(notInTeamIds[1])
    ELSE Range(excludedIds)

excludedAndNotInTeamUserIds ==
    IF props.excludeUsers.defined
    THEN SetOfSpread(Ids(props.profilesNotInCurrentTeam), Ids(props.excludeUsers.values))
    ELSE Range(Ids(props.profilesNotInCurrentTeam))

filterOutDeletedAndExcludedAndNotInTeamUsers(users, excludeUserIds) ==
    LET Keep(user) == obj[user].delete_at = 0 /\ obj[user].id \notin excludeUserIds
    IN  SelectSeq(users, Keep)

\* the primary pool: the filtered profiles, then the includeUsers as they are
OptionUsers ==
    filterOutDeletedAndExcludedAndNotInTeamUsers(
        filterProfilesStartingWithTerm(
            props.profilesNotInCurrentChannel \o props.profilesInCurrentChannel,
            state.term),
        excludedAndNotInTeamUserIds)
    \o (IF props.includeUsers.defined THEN props.includeUsers.values ELSE <<>>)

dmUsers ==
    slice0(filterOutDeletedAndExcludedAndNotInTeamUsers(
               filterProfilesStartingWithTerm(props.profilesFromRecentDMs, state.term),
               excludedAndNotInTeamUserIds),
           USERS_FROM_DMS)

\* groupsAndUsers without the sort
groupsAndUsersUnsorted ==
    filterGroupsMatchingTerm(props.groups, state.term) \o OptionUsers

groupsAndUsers ==
    StableSort(filterGroupsMatchingTerm(props.groups, state.term) \o OptionUsers)

\* getOptions appending what it computes to the stored optionValues
getOptionsAppending ==
    state.optionValues \o Uniq(slice0(dmUsers \o groupsAndUsers, MAX_USERS))

\* getOptions without the slice(0, MAX_USERS)
getOptionsUncapped == Uniq(dmUsers \o groupsAndUsers)

\* getOptions with the recent direct messages behind the other options
getOptionsDMsLast == Uniq(slice0(groupsAndUsers \o dmUsers, MAX_USERS))

getOptions == Uniq(slice0(dmUsers \o groupsAndUsers, MAX_USERS))

(***************************************************************************)
(* this.state and setState.                                                *)
(***************************************************************************)
Undefined == "undefined"

\* the constructor
InitState ==
    [values |-> <<>>,
     usersNotInTeam |-> <<>>,
     guestsNotInTeam |-> <<>>,
     term |-> <<>>,
     show |-> TRUE,
     saving |-> FALSE,
     loadingUsers |-> TRUE,
     optionValues |-> <<>>,
     inviteError |-> Undefined]

\* setState((prevState) => ({[field]: [...prevState[field], profile]}))
Appending(field, profile) == [kind |-> "append", field |-> field, profile |-> profile]

\* setState({...partial})
Setting(partial) == [kind |-> "set", partial |-> partial]

ApplyUpdate(s, u) ==
    IF u.kind = "append" THEN [s EXCEPT ![u.field] = Append(@, u.profile)]
    ELSE [k \in DOMAIN s |-> IF k \in DOMAIN u.partial THEN u.partial[k] ELSE s[k]]

RECURSIVE ApplyAll(_, _)
ApplyAll(s, q) == IF q = <<>> THEN s ELSE ApplyAll(ApplyUpdate(s, Head(q)), Tail(q))

\* the state once every pending update is applied
Logical == ApplyAll(state, queue)

\* React applies the pending updates, in order, and renders
Flush ==
    /\ queue # <<>>
    /\ state' = ApplyAll(state, queue)
    /\ queue' = <<>>
    /\ UNCHANGED <<props, timer, inflight, calls, hist, burst>>

\* the model keeps the lists and the queue within its bounds
Room(updates) ==
    LET after == ApplyAll(state, queue \o updates)
    IN  /\ Len(queue \o updates) <= MaxQueue
        /\ Len(after.values) <= MaxValues
        /\ Len(after.usersNotInTeam) <= MaxValues
        /\ Len(after.guestsNotInTeam) <= MaxValues

\* hist keeps the last two handler calls
Remember(h, e) == IF Len(h) < 2 THEN Append(h, e) ELSE Append(Tail(h), e)

\* this.props.membersInTeam[profile.id]
InTeam(profile) == obj[profile].id \in props.membersInTeam

\* a call of handler op with the object v, as hist records it; of an add it
\* keeps whether v was a team member, whether the id of v was absent from the
\* selected list, both as rendered and with the queued updates applied, and
\* the selected list with the queued updates applied
Called(op, v) ==
    [op |-> op,
     ref |-> v,
     member |-> op = "add" /\ IsUser(v) /\ InTeam(v),
     absent |-> /\ op = "add"
                /\ obj[v].id \notin Range(Ids(state.values))
                /\ obj[v].id \notin Range(Ids(Logical.values)),
     pre |-> IF op = "add" THEN Logical.values ELSE <<>>]

(***************************************************************************)
(* The selection handlers.                                                 *)
(***************************************************************************)
\* addValueUpdates without the test of membersInTeam
addValueUpdatesSelecting(value) ==
    IF IsUser(value) /\ ~Includes(state.values, value)
    THEN <<Appending("values", value)>>
    ELSE <<>>

\* the setState calls addValue(value) makes
addValueUpdates(value) ==
    IF ~IsUser(value) THEN <<>>
    ELSE IF ~InTeam(value)
    THEN IF isGuest(obj[value].roles)
         THEN IF ~Includes(state.guestsNotInTeam, value)
              THEN <<Appending("guestsNotInTeam", value)>>
              ELSE <<>>
         ELSE IF ~Includes(state.usersNotInTeam, value)
              THEN <<Appending("usersNotInTeam", value)>>
              ELSE <<>>
    ELSE IF ~Includes(state.values, value)
         THEN <<Appending("values", value)>>
         ELSE <<>>

addValue(value) ==
    /\ Room(addValueUpdates(value))
    /\ queue' = queue \o addValueUpdates(value)
    /\ UNCHANGED <<props, state, timer, inflight, calls, burst>>

\* handleDeleteUpdates dropping the values it is given
handleDeleteUpdatesClearing(values) == <<Setting([values |-> <<>>])>>

\* the setState call handleDelete(values) makes
handleDeleteUpdates(values) == <<Setting([values |-> values])>>

\* MultiSelect's onDelete(value): the rendered values without the first one
\* that has the id of value
onDelete(value) ==
    LET values == state.values
        Hit == {i \in 1..Len(values) : obj[values[i]].id = obj[value].id}
        at == CHOOSE i \in Hit : \A j \in Hit : i <= j
    IN  IF Hit = {} THEN values
        ELSE SubSeq(values, 1, at - 1) \o SubSeq(values, at + 1, Len(values))

\* the user removes a selected value: MultiSelect calls handleDelete
handleDelete(value) ==
    /\ Includes(state.values, value)
    /\ Room(handleDeleteUpdates(onDelete(value)))
    /\ queue' = queue \o handleDeleteUpdates(onDelete(value))
    /\ UNCHANGED <<props, state, timer, inflight, calls, burst>>

RECURSIVE SpliceOutAll(_, _)
\* usersNotInTeam once the loop of removeInvitedUsers has spliced out profiles
SpliceOutAll(usersNotInTeam, profiles) ==
    IF profiles = <<>> THEN usersNotInTeam
    ELSE SpliceOutAll(SpliceOut(usersNotInTeam, Head(profiles)), Tail(profiles))

RECURSIVE addValueUpdatesOfAll(_)
\* the setState calls of the addValue calls the loop of removeInvitedUsers makes
addValueUpdatesOfAll(profiles) ==
    IF profiles = <<>> THEN <<>>
    ELSE addValueUpdates(Head(profiles)) \o addValueUpdatesOfAll(Tail(profiles))

\* the setState calls removeInvitedUsers(profiles) makes
removeInvitedUsersUpdates(profiles) ==
    addValueUpdatesOfAll(profiles)
        \o <<Setting([usersNotInTeam |-> SpliceOutAll(state.usersNotInTeam, profiles),
                      guestsNotInTeam |-> <<>>])>>

\* TeamInviteBanner reports that profiles were invited to the team
removeInvitedUsers(profiles) ==
    /\ Room(removeInvitedUsersUpdates(profiles))
    /\ queue' = queue \o removeInvitedUsersUpdates(profiles)
    /\ UNCHANGED <<props, state, timer, inflight, calls, hist, burst>>

clearValuesNotInTeamUpdates == <<Setting([usersNotInTeam |-> <<>>, guestsNotInTeam |-> <<>>])>>

clearValuesNotInTeam ==
    /\ Room(clearValuesNotInTeamUpdates)
    /\ queue' = queue \o clearValuesNotInTeamUpdates
    /\ UNCHANGED <<props, state, timer, inflight, calls, hist, burst>>

\* the store gains or loses the team membership of a user: new props
membersInTeamChange(id) ==
    /\ props' = [props EXCEPT !.membersInTeam =
                    IF id \in @ THEN @ \ {id} ELSE @ \cup {id}]
    /\ UNCHANGED <<state, queue, timer, inflight, calls, hist, burst>>

(***************************************************************************)
(* Submitting.                                                             *)
(***************************************************************************)
\* the setState call onHide makes (its loadStatusesForProfilesList calls
\* touch neither the component nor what is recorded here)
onHideUpdates == <<Setting([show |-> FALSE])>>

\* the modal is closed by the user
onHide ==
    /\ Room(onHideUpdates)
    /\ state.show
    /\ queue' = queue \o onHideUpdates
    /\ UNCHANGED <<props, state, timer, inflight, calls, hist, burst>>

\* handleInviteErrorUpdates closing the modal as a success does
handleInviteErrorUpdatesHiding(err) ==
    IF err.defined
    THEN <<Setting([saving |-> FALSE, inviteError |-> err.message])>> \o onHideUpdates
    ELSE <<>>

\* the setState call handleInviteError(err) makes
handleInviteErrorUpdates(err) ==
    IF err.defined
    THEN <<Setting([saving |-> FALSE, inviteError |-> err.message])>>
    ELSE <<>>

\* handleSubmitUpdates without the test for an empty selection
handleSubmitUpdatesUnguarded ==
    IF props.skipCommit /\ props.onAddCallback
    THEN <<Setting([saving |-> FALSE, inviteError |-> Undefined])>> \o onHideUpdates
    ELSE <<Setting([saving |-> TRUE])>>

\* the setState calls handleSubmit makes
handleSubmitUpdates ==
    IF Len(Ids(state.values)) = 0 THEN <<>>
    ELSE IF props.skipCommit /\ props.onAddCallback
    THEN <<Setting([saving |-> FALSE, inviteError |-> Undefined])>> \o onHideUpdates
    ELSE <<Setting([saving |-> TRUE])>>

\* handleSubmitCalls committing whatever skipCommit says
handleSubmitCallsCommitting ==
    IF Len(Ids(state.values)) = 0 THEN <<>>
    ELSE <<[call |-> "addUsersToChannel", arg |-> Ids(state.values)]>>

\* the calls handleSubmit makes
handleSubmitCalls ==
    IF Len(Ids(state.values)) = 0 THEN <<>>
    ELSE IF props.skipCommit /\ props.onAddCallback
    THEN <<[call |-> "onAddCallback", arg |-> state.values]>>
    ELSE <<[call |-> "addUsersToChannel", arg |-> Ids(state.values)]>>

\* the promise handleSubmit waits for
handleSubmitPromises ==
    IF Len(Ids(state.values)) = 0 \/ (props.skipCommit /\ props.onAddCallback)
    THEN <<>>
    ELSE <<[call |-> "addUsersToChannel", arg |-> Ids(state.values)]>>

handleSubmit ==
    /\ Room(handleSubmitUpdates)
    /\ Len(calls \o handleSubmitCalls) <= MaxCalls
    /\ Len(inflight \o handleSubmitPromises) <= MaxInflight
    /\ queue' = queue \o handleSubmitUpdates
    /\ calls' = calls \o handleSubmitCalls
    /\ inflight' = inflight \o handleSubmitPromises
    /\ UNCHANGED <<props, state, timer, hist, burst>>

\* what addUsersToChannel may resolve with
Messages == {"x", "y"}
NoError == [defined |-> FALSE, message |-> Undefined]
ErrorOf(m) == [defined |-> TRUE, message |-> m]
CommitResults == {[error |-> NoError]} \cup {[error |-> ErrorOf(m)] : m \in Messages}

\* commitSettledUpdates leaving the modal open after a success
commitSettledUpdatesStaying(result) ==
    IF result.error.defined
    THEN handleInviteErrorUpdates(result.error)
    ELSE <<Setting([saving |-> FALSE, inviteError |-> Undefined])>>

\* the setState calls of the then-callback of addUsersToChannel
commitSettledUpdates(result) ==
    IF result.error.defined
    THEN handleInviteErrorUpdates(result.error)
    ELSE <<Setting([saving |-> FALSE, inviteError |-> Undefined])>> \o onHideUpdates

Without(s, i) == SubSeq(s, 1, i - 1) \o SubSeq(s, i + 1, Len(s))

\* the i-th promise in flight, an addUsersToChannel, resolves with result
commitSettled(i, result) ==
    /\ i \in 1..Len(inflight)
    /\ inflight[i].call = "addUsersToChannel"
    /\ Room(commitSettledUpdates(result))
    /\ queue' = queue \o commitSettledUpdates(result)
    /\ inflight' = Without(inflight, i)
    /\ UNCHANGED <<props, state, timer, calls, hist, burst>>

(***************************************************************************)
(* Searching.                                                              *)
(***************************************************************************)
\* clearTimeout(id)
clearTimeout(pending, id) == {t \in pending : t.id # id}

\* searchPending without the clearTimeout
searchPendingKeeping(searchTerm) ==
    timer.pending \cup {[id |-> timer.searchTimeoutId + 1, term |-> trim(searchTerm)]}

\* the timeouts pending once search(searchTerm) has run: the one
\* searchTimeoutId names is cleared and a new one is set
searchPending(searchTerm) ==
    clearTimeout(timer.pending, timer.searchTimeoutId)
        \cup {[id |-> timer.searchTimeoutId + 1, term |-> trim(searchTerm)]}

search(searchTerm) ==
    /\ timer.searchTimeoutId < MaxTimers
    /\ Room(<<Setting([term |-> trim(searchTerm)])>>)
    /\ queue' = Append(queue, Setting([term |-> trim(searchTerm)]))
    /\ timer' = [searchTimeoutId |-> timer.searchTimeoutId + 1,
                 pending |-> searchPending(searchTerm)]
    /\ burst' = IF timer.pending = {}
                 THEN [terms |-> <<searchTerm>>, base |-> Len(calls)]
                 ELSE [burst EXCEPT !.terms = Append(@, searchTerm)]
    /\ UNCHANGED <<props, state, inflight, calls, hist>>

\* componentDidMount has run: it alone calls getTeamStats
Mounted == \E i \in 1..Len(calls) : calls[i].call = "getTeamStats"

\* the calls componentDidMount makes
componentDidMountCalls ==
    <<[call |-> "getProfilesNotInChannel", arg |-> <<0>>],
      [call |-> "getProfilesInChannel", arg |-> <<0, USERS_PER_PAGE>>],
      [call |-> "getTeamStats", arg |-> <<>>],
      [call |-> "loadStatusesForProfilesList", arg |-> props.profilesNotInCurrentChannel],
      [call |-> "loadStatusesForProfilesList", arg |-> props.profilesInCurrentChannel]>>

\* the calls the timeout callback makes for term
searchCalls(term) ==
    IF term = <<>> THEN <<>>
    ELSE <<[call |-> "searchProfiles", arg |-> term],
           [call |-> "searchAssociatedGroupsForReference", arg |-> term]>>

\* the Promise.all the timeout callback waits for
searchPromises(term) ==
    IF term = <<>> THEN <<>> ELSE <<[call |-> "search", arg |-> term]>>

\* a pending timeout t fires: its callback runs up to the await
searchTimeout(t) ==
    /\ t \in timer.pending
    /\ Len(calls \o searchCalls(t.term))
           <= MaxCalls + (IF Mounted THEN Len(componentDidMountCalls) ELSE 0)
    /\ Len(inflight \o searchPromises(t.term)) <= MaxInflight
    /\ timer' = [timer EXCEPT !.pending = @ \ {t}]
    /\ calls' = calls \o searchCalls(t.term)
    /\ inflight' = inflight \o searchPromises(t.term)
    /\ UNCHANGED <<props, state, queue, hist, burst>>

setUsersLoadingStateUpdates(loadingState) == <<Setting([loadingUsers |-> loadingState])>>

\* the i-th promise in flight, the Promise.all of a search, settles; when it
\* rejects, the callback ends at the await
searchSettled(i, fulfilled) ==
    /\ i \in 1..Len(inflight)
    /\ inflight[i].call = "search"
    /\ Room(setUsersLoadingStateUpdates(FALSE))
    /\ queue' = queue \o (IF fulfilled THEN setUsersLoadingStateUpdates(FALSE) ELSE <<>>)
    /\ inflight' = Without(inflight, i)
    /\ UNCHANGED <<props, state, timer, calls, hist, burst>>

(***************************************************************************)
(* Mounting and paging.                                                    *)
(***************************************************************************)
\* React calls componentDidMount once, after the first render; of the
\* promises only that of getProfilesNotInChannel has a callback
componentDidMount ==
    /\ ~Mounted
    /\ Len(inflight) < MaxInflight
    /\ calls' = calls \o componentDidMountCalls
    /\ inflight' = Append(inflight, [call |-> "getProfilesNotInChannel", arg |-> <<0>>])
    /\ UNCHANGED <<props, state, queue, timer, hist, burst>>

\* the setState call handlePageChange(page, prevPage) makes
handlePageChangeUpdates(page, prevPage) ==
    IF page > prevPage THEN setUsersLoadingStateUpdates(TRUE) ELSE <<>>

\* the calls handlePageChange(page, prevPage) makes
handlePageChangeCalls(page, prevPage) ==
    IF page > prevPage
    THEN <<[call |-> "getProfilesNotInChannel", arg |-> <<page + 1, USERS_PER_PAGE>>],
           [call |-> "getProfilesInChannel", arg |-> <<page + 1, USERS_PER_PAGE>>]>>
    ELSE <<>>

\* the promise handlePageChange(page, prevPage) sets a callback on
handlePageChangePromises(page, prevPage) ==
    IF page > prevPage
    THEN <<[call |-> "getProfilesNotInChannel", arg |-> <<page + 1, USERS_PER_PAGE>>]>>
    ELSE <<>>

\* MultiSelect reports a change of page
handlePageChange(page, prevPage) ==
    /\ Mounted
    /\ Room(handlePageChangeUpdates(page, prevPage))
    /\ Len(calls \o handlePageChangeCalls(page, prevPage)) <= MaxPageCalls
    /\ Len(inflight \o handlePageChangePromises(page, prevPage)) <= MaxInflight
    /\ queue' = queue \o handlePageChangeUpdates(page, prevPage)
    /\ calls' = calls \o handlePageChangeCalls(page, prevPage)
    /\ inflight' = inflight \o handlePageChangePromises(page, prevPage)
    /\ UNCHANGED <<props, state, timer, hist, burst>>

\* the setState call made when a getProfilesNotInChannel settles: the
\* callback is given to then() alone, so a rejection runs nothing
fetchSettledUpdates(fulfilled) ==
    IF fulfilled THEN setUsersLoadingStateUpdates(FALSE) ELSE <<>>

\* the i-th promise in flight, a getProfilesNotInChannel, settles
fetchSettled(i, fulfilled) ==
    /\ i \in 1..Len(inflight)
    /\ inflight[i].call = "getProfilesNotInChannel"
    /\ Room(fetchSettledUpdates(fulfilled))
    /\ queue' = queue \o fetchSettledUpdates(fulfilled)
    /\ inflight' = Without(inflight, i)
    /\ UNCHANGED <<props, state, timer, calls, hist, burst>>

(***************************************************************************)
(* componentDidUpdate.                                                     *)
(***************************************************************************)
\* lodash isEqual on two arrays of objects: by contents, not by reference
isEqual(a, b) == Len(a) = Len(b) /\ \A i \in 1..Len(a) : obj[a[i]] = obj[b[i]]

RECURSIVE optionUserIds(_)
\* the ids of the users and of the members of the groups of values
optionUserIds(values) ==
    IF values = <<>> THEN <<>>
    ELSE (IF IsUser(Head(values)) THEN <<obj[Head(values)].id>>
          ELSE obj[Head(values)].member_ids)
         \o optionUserIds(Tail(values))

\* componentDidUpdateCalls looking the members up whether or not the list is new
componentDidUpdateCallsAlways(values) ==
    LET userIds == optionUserIds(values)
    IN  IF Len(userIds) > 0
        THEN <<[call |-> "getTeamMembersByIds", arg |-> userIds]>>
        ELSE <<>>

\* the call componentDidUpdate makes when getOptions returned values
componentDidUpdateCalls(values) ==
    LET userIds == optionUserIds(values)
    IN  IF ~isEqual(values, state.optionValues) /\ Len(userIds) > 0
        THEN <<[call |-> "getTeamMembersByIds", arg |-> userIds]>>
        ELSE <<>>

\* componentDidUpdateUpdates storing the list whether or not it is new
componentDidUpdateUpdatesAlways(values) ==
    <<Setting([optionValues |-> values])>>

\* the setState call componentDidUpdate makes when getOptions returned values
componentDidUpdateUpdates(values) ==
    IF ~isEqual(values, state.optionValues)
    THEN <<Setting([optionValues |-> values])>>
    ELSE <<>>

componentDidUpdate ==
    LET values == getOptions
        updates == componentDidUpdateUpdates(values)
        made == componentDidUpdateCalls(values)
    IN  /\ Room(updates)
        /\ Len(calls \o made) <= MaxCalls
        /\ queue' = queue \o updates
        /\ calls' = calls \o made
        /\ UNCHANGED <<props, state, timer, inflight, hist, burst>>

(***************************************************************************)
(* The specifications.                                                     *)
(***************************************************************************)
NoProps ==
    [profilesNotInCurrentChannel |-> <<>>,
     profilesInCurrentChannel |-> <<>>,
     profilesNotInCurrentTeam |-> <<>>,
     profilesFromRecentDMs |-> <<>>,
     membersInTeam |-> {},
     excludeUsers |-> Given(<<>>),
     includeUsers |-> Given(<<>>),
     groups |-> <<>>,
     skipCommit |-> FALSE,
     onAddCallback |-> FALSE]

Idle ==
    /\ queue = <<>>
    /\ timer = [searchTimeoutId |-> 0, pending |-> {}]
    /\ inflight = <<>>
    /\ calls = <<>>
    /\ hist = <<>>
    /\ burst = [terms |-> <<>>, base |-> 0]

\* the users and the group the selection handlers are called with
Candidates == (1..NSel) \cup {NUsers + NClones + 1}

\* the selection handlers: the component after construction, under any team
\* membership of the candidates
Init ==
    /\ \E members \in SUBSET {obj[r].id : r \in 1..NSel} :
          props = [NoProps EXCEPT !.profilesNotInCurrentChannel = Window(1, NSel),
                                  !.groups = <<NUsers + NClones + 1>>,
                                  !.membersInTeam = members]
    /\ state = InitState
    /\ Idle

\* hist follows the calls of addValue and handleDelete
Next ==
    \/ \E v \in Candidates : addValue(v) /\ hist' = Remember(hist, Called("add", v))
    \/ \E v \in Candidates : handleDelete(v) /\ hist' = Remember(hist, Called("remove", v))
    \/ Flush

Spec == Init /\ [][Next]_vars

\* the users TeamInviteBanner reports as invited: one or two of them
InvitedUsers ==
    {<<r>> : r \in 1..NSel}
        \cup {pair \in (1..NSel) \X (1..NSel) : pair[1] # pair[2]}

\* the selection handlers while team memberships come and go
NextTeam ==
    \/ \E v \in Candidates : addValue(v) /\ UNCHANGED hist
    \/ \E v \in Candidates : handleDelete(v) /\ UNCHANGED hist
    \/ clearValuesNotInTeam
    \/ \E profiles \in InvitedUsers : removeInvitedUsers(profiles)
    \/ \E r \in 1..NSel : membersInTeamChange(obj[r].id)
    \/ Flush

SpecTeam == Init /\ [][NextTeam]_vars

\* the users that are selected when a submission starts
SubmitUsers == <<1, 2>>

\* submitting a selection: the component with some users selected
InitSubmit ==
    /\ \E n \in 0..Len(SubmitUsers), skip \in BOOLEAN, cb \in BOOLEAN :
          /\ props = [NoProps EXCEPT !.profilesNotInCurrentChannel = SubmitUsers,
                                      !.membersInTeam = Range(Ids(SubmitUsers)),
                                      !.skipCommit = skip,
                                      !.onAddCallback = cb]
          /\ state = [InitState EXCEPT !.values = SubSeq(SubmitUsers, 1, n)]
    /\ Idle

NextSubmit ==
    \/ handleSubmit
    \/ \E i \in 1..MaxInflight, result \in CommitResults : commitSettled(i, result)
    \/ \E v \in Range(SubmitUsers) : handleDelete(v) /\ UNCHANGED hist
    \/ onHide
    \/ Flush

SpecSubmit == InitSubmit /\ [][NextSubmit]_vars

\* what the user may type
SearchTerms == {<<>>, <<" ">>, <<"a">>, <<"a", " ">>, <<"a", "b">>}

InitSearch ==
    /\ props = [NoProps EXCEPT !.profilesNotInCurrentChannel = Window(1, NSel)]
    /\ state = InitState
    /\ Idle

NextSearch ==
    \/ \E searchTerm \in SearchTerms : search(searchTerm)
    \/ \E t \in timer.pending : searchTimeout(t)
    \/ \E i \in 1..MaxInflight, fulfilled \in BOOLEAN : searchSettled(i, fulfilled)
    \/ Flush

SpecSearch == InitSearch /\ [][NextSearch]_vars

\* what the user types while the lists load
LoadingTerms == {<<>>, <<"a">>}

\* the pages MultiSelect reports
Pages == 0..MaxPage

NextPages ==
    \/ componentDidMount
    \/ \E page \in Pages, prevPage \in Pages : handlePageChange(page, prevPage)
    \/ \E i \in 1..MaxInflight, fulfilled \in BOOLEAN : fetchSettled(i, fulfilled)
    \/ Flush

\* mounting and paging: the component after construction
SpecPages == InitSearch /\ [][NextPages]_vars

\* mounting, paging and searching: the user types once the component is
\* mounted
NextLoading ==
    \/ componentDidMount
    \/ \E page \in Pages, prevPage \in Pages : handlePageChange(page, prevPage)
    \/ \E i \in 1..MaxInflight, fulfilled \in BOOLEAN : fetchSettled(i, fulfilled)
    \/ \E searchTerm \in LoadingTerms : Mounted /\ search(searchTerm)
    \/ \E t \in timer.pending : searchTimeout(t)
    \/ \E i \in 1..MaxInflight, fulfilled \in BOOLEAN : searchSettled(i, fulfilled)
    \/ Flush

SpecLoading == InitSearch /\ [][NextLoading]_vars

\* the pools, mappings and terms getOptions is computed from
GroupA == NUsers + NClones + 1
GroupB == NUsers + NClones + 2
NotInChannelPools ==
    {<<>>, Window(1, 4), Window(1, MAX_USERS + Over), Window(5, MAX_USERS + Over)}
InChannelPools == {<<>>, Window(3, 3)}
RecentDMPools ==
    {<<>>, Reverse(Window(2, 3)), Window(NUsers - USERS_FROM_DMS, USERS_FROM_DMS + Over)}
NotInTeamPools == {<<>>, <<5>>, <<1, 5>>}
ExcludeUsers == {Given(<<>>), Given(<<4>>), Given(<<1, 21>>), Null}
IncludeUsers == {Given(<<>>), Given(<<2, NUsers + 1>>), Given(<<6>>)}
GroupPools == {<<>>, <<GroupB, GroupA>>}
Terms == {<<>>, <<"a">>, <<"B">>}

\* the option list: the component after construction, with any of the props
\* and with any of the terms a search has left in the state
InitOptions ==
    /\ \E nic \in NotInChannelPools, ic \in InChannelPools, dms \in RecentDMPools,
          nit \in NotInTeamPools, ex \in ExcludeUsers, inc \in IncludeUsers,
          gs \in GroupPools, term \in Terms :
          /\ props = [NoProps EXCEPT !.profilesNotInCurrentChannel = nic,
                                      !.profilesInCurrentChannel = ic,
                                      !.profilesFromRecentDMs = dms,
                                      !.profilesNotInCurrentTeam = nit,
                                      !.excludeUsers = ex,
                                      !.includeUsers = inc,
                                      !.groups = gs]
          /\ state = [InitState EXCEPT !.term = term]
    /\ Idle

NextOptions ==
    \/ componentDidUpdate
    \/ Flush

SpecOptions == InitOptions /\ [][NextOptions]_vars

\* pools of active users, 27 of them in the two channel pools together, a
\* user of includeUsers that the term "a" does not match, and the rest
ResultNotInChannelPools == {Window(3, 19), Reverse(Window(3, 19)), Window(3, 4)}
ResultInChannelPools == {<<>>, Window(23, 8)}
ResultRecentDMPools == {<<>>, <<24, 23>>}
ResultNotInTeamPools == {<<>>, <<1>>}
ResultExcludeUsers == {Given(<<>>), Given(<<4>>)}
ResultIncludeUsers == {Given(<<>>), Given(<<3>>)}
ResultGroupPools == {<<>>, <<GroupA>>}
ResultTerms == {<<>>, <<"a">>}

\* what getOptions returns: the component after construction, with any of
\* these props and of these terms
InitResult ==
    /\ \E nic \in ResultNotInChannelPools, ic \in ResultInChannelPools,
          dms \in ResultRecentDMPools, nit \in ResultNotInTeamPools,
          ex \in ResultExcludeUsers, inc \in ResultIncludeUsers,
          gs \in ResultGroupPools, term \in ResultTerms :
          /\ props = [NoProps EXCEPT !.profilesNotInCurrentChannel = nic,
                                      !.profilesInCurrentChannel = ic,
                                      !.profilesFromRecentDMs = dms,
                                      !.profilesNotInCurrentTeam = nit,
                                      !.excludeUsers = ex,
                                      !.includeUsers = inc,
                                      !.groups = gs]
          /\ state = [InitState EXCEPT !.term = term]
    /\ Idle

SpecResult == InitResult /\ [][NextOptions]_vars

\* the update cycle: React calls componentDidUpdate after a commit, when the
\* queued updates have been applied, and nothing else changes props or term
NextCycle ==
    \/ queue = <<>> /\ componentDidUpdate
    \/ Flush

SpecCycle == InitResult /\ [][NextCycle]_vars

\* how many calls of name are recorded in cs
CallsOf(cs, name) == Cardinality({i \in 1..Len(cs) : cs[i].call = name})

(***************************************************************************)
(* The option list (SpecOptions).                                          *)
(***************************************************************************)
\* C1: whatever the pools, groups, includeUsers, excludeUsers and term, the
\* list getOptions returns has at most MAX_USERS (25) entries.
C1_AtMostMaxUsers == \A options \in {getOptions} : Len(options) <= MAX_USERS

\* the cap cuts: more than 25 candidates, and 25 options returned
C1_Witness ==
    /\ Len(dmUsers \o groupsAndUsers) > MAX_USERS
    /\ Len(getOptions) = MAX_USERS

\* the ids the exclusion set is meant to hold: those of profilesNotInCurrentTeam
\* and those of the excludeUsers the host gave
ExclusionSet ==
    Range(Ids(props.profilesNotInCurrentTeam))
        \cup (IF props.excludeUsers.defined THEN Range(Ids(props.excludeUsers.values)) ELSE {})

\* C2: no user in the list getOptions returns has an id of the exclusion set
\* (the ids of profilesNotInCurrentTeam and of excludeUsers).
C2_NoneExcluded ==
    \A options \in {getOptions} :
        \A i \in 1..Len(options) :
            IsUser(options[i]) => obj[options[i]].id \notin ExclusionSet

\* C3: no user with a non-zero delete timestamp is in the list getOptions
\* returns, whichever pool or mapping supplied the user.
C3_NoneDeleted ==
    \A options \in {getOptions} :
        \A i \in 1..Len(options) :
            IsUser(options[i]) => obj[options[i]].delete_at = 0

\* the first index of x in s
IndexOf(s, x) == CHOOSE i \in 1..Len(s) : s[i] = x /\ \A j \in 1..(i - 1) : s[j] # x

\* C4: the options the recent direct messages contribute are at most
\* USERS_FROM_DMS (10), stand in the order of profilesFromRecentDMs, and each
\* of them precedes every option they did not contribute.
C4_RecentDMsFirst ==
    \A options \in {getOptions}, dms \in {Range(dmUsers)} :
        LET FromDMs == {i \in 1..Len(options) : options[i] \in dms}
        IN  /\ Cardinality(FromDMs) <= USERS_FROM_DMS
            /\ \A i \in FromDMs, j \in 1..Len(options) : j \notin FromDMs => i < j
            /\ \A i \in FromDMs, j \in FromDMs :
                   i < j => IndexOf(props.profilesFromRecentDMs, options[i])
                                < IndexOf(props.profilesFromRecentDMs, options[j])

\* more than 10 recent direct messages pass the filters, they are not in the
\* order of the sort, and the list holds options they did not contribute
C4_Witness ==
    \E options \in {getOptions}, dms \in {Range(dmUsers)} :
        /\ Len(filterOutDeletedAndExcludedAndNotInTeamUsers(
                   filterProfilesStartingWithTerm(props.profilesFromRecentDMs, state.term),
                   excludedAndNotInTeamUserIds)) > USERS_FROM_DMS
        /\ options[1] \in dms
        /\ options[Len(options)] \notin dms
        /\ \E i \in 1..(Len(options) - 1) :
               /\ options[i + 1] \in dms
               /\ sortUsersAndGroups(options[i], options[i + 1]) > 0

\* C5: no two options of the list getOptions returns have the same id, also
\* when an id is in a pool more than once or in several pools.
C5_NoDuplicateIds ==
    \A options \in {getOptions} :
        \A i \in 1..Len(options), j \in 1..Len(options) :
            i # j => obj[options[i]].id # obj[options[j]].id
(***************************************************************************)
(* What getOptions returns (SpecResult).                                   *)
(***************************************************************************)
\* the primary pool of the props
PrimaryPool == props.profilesNotInCurrentChannel \o props.profilesInCurrentChannel

\* the primary pool holds more than 25 users, of distinct ids, active and
\* not excluded, and there is no term, recent DM, group or includeUsers
ManyPlainUsers ==
    /\ state.term = <<>>
    /\ props.profilesFromRecentDMs = <<>>
    /\ props.groups = <<>>
    /\ props.includeUsers.values = <<>>
    /\ Len(PrimaryPool) > MAX_USERS
    /\ Cardinality(Range(Ids(PrimaryPool))) = Len(PrimaryPool)
    /\ \A u \in Range(PrimaryPool) :
           obj[u].delete_at = 0 /\ obj[u].id \notin ExclusionSet

\* C15: with an empty term, no recent DMs, no groups and no includeUsers, a
\* primary pool of more than 25 distinct active users that are not excluded
\* gives exactly 25 options: users of the pool, in the order of
\* sortUsersAndGroups, none of them sorting after a user of the pool that
\* was left out.
C15_First25Sorted ==
    ManyPlainUsers =>
        \A options \in {getOptions} :
            /\ Len(options) = MAX_USERS
            /\ Range(options) \subseteq Range(PrimaryPool)
            /\ Cardinality(Range(options)) = MAX_USERS
            /\ \A i \in 1..Len(options), j \in 1..Len(options) :
                   i < j => sortUsersAndGroups(options[i], options[j]) <= 0
            /\ \A i \in 1..Len(options), u \in Range(PrimaryPool) \ Range(options) :
                   sortUsersAndGroups(options[i], u) <= 0

\* 27 such users, given in an order that is not that of the sort
C15_Witness ==
    /\ ManyPlainUsers
    /\ Len(PrimaryPool) = MAX_USERS + 2
    /\ sortUsersAndGroups(PrimaryPool[1], PrimaryPool[2]) > 0
    /\ props.profilesNotInCurrentTeam # <<>>
    /\ Len(getOptions) = MAX_USERS

MatchesTerm(v, term) ==
    IF IsUser(v)
    THEN \/ startsWith(toLowerCase(obj[v].username), toLowerCase(term))
         \/ startsWith(toLowerCase(obj[v].nickname), toLowerCase(term))
    ELSE startsWith(toLowerCase(obj[v].name), toLowerCase(term))

\* C19: every option getOptions returns matches the term, users that come
\* from includeUsers as well; with an empty term every option matches.
C19_AllMatchTerm ==
    \A options \in {getOptions} :
        \A i \in 1..Len(options) : MatchesTerm(options[i], state.term)

\* the member ids of the groups of options
GroupMemberIds(options) ==
    UNION {Range(obj[options[i]].member_ids) :
              i \in {j \in 1..Len(options) : ~IsUser(options[j])}}

\* C20: componentDidUpdate calls getTeamMembersByIds only when the list
\* getOptions returns differs from the stored optionValues, and then with
\* ids that include every member id of every group of the new list, and
\* stores the new list; when the list equals the stored one it makes no call
\* and does not write optionValues.
C20_LookupOnChange ==
    \A values \in {getOptions} :
        \A made \in {componentDidUpdateCalls(values)},
           updates \in {componentDidUpdateUpdates(values)} :
            IF isEqual(values, state.optionValues)
            THEN made = <<>> /\ updates = <<>>
            ELSE /\ updates = <<Setting([optionValues |-> values])>>
                 /\ Len(made) <= 1
                 /\ \A i \in 1..Len(made) :
                        /\ made[i].call = "getTeamMembersByIds"
                        /\ GroupMemberIds(values) \subseteq Range(made[i].arg)

\* a list with a group was looked up once and stored, and is the list
\* getOptions returns now
C20_Witness ==
    /\ Len(calls) = 1
    /\ calls[1].call = "getTeamMembersByIds"
    /\ queue = <<>>
    /\ isEqual(getOptions, state.optionValues)
    /\ GroupMemberIds(state.optionValues) # {}
    /\ GroupMemberIds(state.optionValues) \subseteq Range(calls[1].arg)

(***************************************************************************)
(* The selection (Spec).                                                   *)
(***************************************************************************)
\* how often x occurs in s
Occurrences(s, x) == Cardinality({i \in 1..Len(s) : s[i] = x})

\* C6: after addValue is called twice with the same team member, whether or
\* not the queued updates are applied between or after the calls, that user
\* occurs exactly once in the selected list.
C6_AddedOnce ==
    (/\ Len(hist) = 2
     /\ hist[1].op = "add" /\ hist[2].op = "add"
     /\ hist[1].ref = hist[2].ref
     /\ hist[1].member /\ hist[2].member)
        => Occurrences(Logical.values, hist[2].ref) = 1

C8_NotInTeamRouted ==
    [][\A p \in Candidates :
          (addValue(p) /\ IsUser(p) /\ ~InTeam(p)) =>
              \A before \in {Logical}, after \in {ApplyAll(state', queue')} :
                  /\ after.values = before.values
                  /\ ~Includes(after.values, p)
                  /\ IF isGuest(obj[p].roles)
                     THEN /\ Includes(after.guestsNotInTeam, p)
                          /\ after.usersNotInTeam = before.usersNotInTeam
                     ELSE /\ Includes(after.usersNotInTeam, p)
                          /\ after.guestsNotInTeam = before.guestsNotInTeam]_vars

\* a guest and another user, neither in membersInTeam, were added: each is in
\* its bucket and the selected list is empty
C8_Witness ==
    /\ Len(hist) = 2
    /\ hist[1].op = "add" /\ hist[2].op = "add"
    /\ IsUser(hist[1].ref) /\ IsUser(hist[2].ref)
    /\ ~hist[1].member /\ ~hist[2].member
    /\ isGuest(obj[hist[1].ref].roles) /\ ~isGuest(obj[hist[2].ref].roles)
    /\ queue = <<>>
    /\ state.guestsNotInTeam = <<hist[1].ref>>
    /\ state.usersNotInTeam = <<hist[2].ref>>
    /\ state.values = <<>>

(***************************************************************************)
(* The selection and the team (SpecTeam).                                  *)
(***************************************************************************)
\* how many of the selected list and the two not-in-team lists hold id
ListsHolding(id) ==
    Cardinality({field \in {"values", "usersNotInTeam", "guestsNotInTeam"} :
                    id \in Range(Ids(state[field]))})

\* C17: whatever addValue, handleDelete, clearValuesNotInTeam and
\* removeInvitedUsers calls and changes of membersInTeam came before, no user
\* is in more than one of the selected list, usersNotInTeam and
\* guestsNotInTeam.
C17_OneListPerUser ==
    \A r \in 1..NSel : ListsHolding(obj[r].id) <= 1

\* C18: removeInvitedUsers(profiles) leaves every user of profiles that was
\* in usersNotInTeam in the selected list and out of usersNotInTeam, whether
\* or not membersInTeam lists the user at the call.
C18_InvitedAreSelected ==
    [][\A profiles \in InvitedUsers :
          removeInvitedUsers(profiles) =>
              \A before \in {Logical}, after \in {ApplyAll(state', queue')} :
                  \A u \in Range(profiles) :
                      (Includes(state.usersNotInTeam, u)
                           /\ Includes(before.usersNotInTeam, u)) =>
                          /\ Includes(after.values, u)
                          /\ ~Includes(after.usersNotInTeam, u)]_vars

(***************************************************************************)
(* Submitting (SpecSubmit).                                                *)
(***************************************************************************)
\* C9: when the addUsersToChannel that handleSubmit started resolves with
\* {error: {message: m}}, saving becomes false, inviteError becomes m, and the
\* selected list and show are as they were: an open modal stays open.
C9_InviteErrorShown ==
    [][\A i \in 1..Len(inflight), m \in Messages :
          commitSettled(i, [error |-> ErrorOf(m)]) =>
              \A before \in {Logical}, after \in {ApplyAll(state', queue')} :
                  /\ after.saving = FALSE
                  /\ after.inviteError = m
                  /\ after.values = before.values
                  /\ after.show = before.show]_vars

\* a submit was answered with an error: the message is shown, nothing is being
\* saved, the modal is open and the selected list is still there
C9_Witness ==
    /\ \E i \in 1..Len(calls) : calls[i].call = "addUsersToChannel"
    /\ inflight = <<>>
    /\ queue = <<>>
    /\ state.inviteError \in Messages
    /\ ~state.saving
    /\ state.show
    /\ state.values # <<>>

\* C12: handleSubmit with an empty selected list does nothing: it makes no
\* call (neither addUsersToChannel nor onAddCallback), waits for no promise
\* and queues no state update, so saving, inviteError, show and the three
\* lists stay as they are.
C12_EmptySubmitNoOp ==
    state.values = <<>> =>
        /\ handleSubmitCalls = <<>>
        /\ handleSubmitPromises = <<>>
        /\ handleSubmitUpdates = <<>>

\* the selected list is empty after a failed submit, with the error shown
C12_Witness ==
    /\ state.values = <<>>
    /\ queue = <<>>
    /\ state.inviteError \in Messages
    /\ state.show
    /\ ENABLED handleSubmit

\* C13: handleSubmit with a non-empty selected list, unless skipCommit and
\* onAddCallback are both given, calls addUsersToChannel once with the ids of
\* the selected users in their order and sets saving to true; when that call
\* resolves without error, saving is false, inviteError is cleared and show
\* is false.
C13_SubmitCommits ==
    /\ [][(/\ handleSubmit
            /\ state.values # <<>>
            /\ ~(props.skipCommit /\ props.onAddCallback)) =>
               /\ calls' = Append(calls, [call |-> "addUsersToChannel",
                                          arg |-> Ids(state.values)])
               /\ ApplyAll(state', queue').saving]_vars
    /\ [][\A i \in 1..Len(inflight) :
             commitSettled(i, [error |-> NoError]) =>
                 \A after \in {ApplyAll(state', queue')} :
                     /\ after.saving = FALSE
                     /\ after.inviteError = Undefined
                     /\ after.show = FALSE]_vars

\* two selected users were committed in their order and the call resolved
\* without error: the modal is hidden and nothing is being saved
C13_Witness ==
    /\ ~props.skipCommit
    /\ calls = <<[call |-> "addUsersToChannel", arg |-> Ids(SubmitUsers)]>>
    /\ inflight = <<>>
    /\ queue = <<>>
    /\ ~state.saving
    /\ state.inviteError = Undefined
    /\ ~state.show

\* C14: with skipCommit and onAddCallback given, handleSubmit with a
\* non-empty selected list calls onAddCallback once with the selected users,
\* waits for no promise, leaves saving false and inviteError cleared and sets
\* show to false; addUsersToChannel is never called.
C14_SkipCommit ==
    /\ []((props.skipCommit /\ props.onAddCallback) =>
             CallsOf(calls, "addUsersToChannel") = 0)
    /\ [][(/\ handleSubmit
            /\ state.values # <<>>
            /\ props.skipCommit /\ props.onAddCallback) =>
               \A after \in {ApplyAll(state', queue')} :
                   /\ calls' = Append(calls, [call |-> "onAddCallback",
                                              arg |-> state.values])
                   /\ inflight' = inflight
                   /\ after.saving = FALSE
                   /\ after.inviteError = Undefined
                   /\ after.show = FALSE]_vars

\* with skipCommit and onAddCallback given, two selected users were handed
\* to onAddCallback and the modal is hidden
C14_Witness ==
    /\ props.skipCommit /\ props.onAddCallback
    /\ calls = <<[call |-> "onAddCallback", arg |-> SubmitUsers]>>
    /\ inflight = <<>>
    /\ queue = <<>>
    /\ ~state.saving
    /\ ~state.show

(***************************************************************************)
(* Searching (SpecSearch).                                                 *)
(***************************************************************************)
\* the calls made since the first search call of the burst
Dispatched == SubSeq(calls, burst.base + 1, Len(calls))

\* the term of the last search call of the burst, trimmed
LastTerm == trim(burst.terms[Len(burst.terms)])

\* C10 as stated: once the timeout of a burst of search calls, each made
\* while the timeout of the one before was pending, has fired, exactly one
\* dispatch (searchProfiles and the group search) was made, with the term of
\* the last call.
C10_ExactlyOneDispatch ==
    (burst.terms # <<>> /\ timer.pending = {}) =>
        Dispatched = <<[call |-> "searchProfiles", arg |-> LastTerm],
                       [call |-> "searchAssociatedGroupsForReference", arg |-> LastTerm]>>

\* C10: of a burst of search calls, each made while the timeout of the one
\* before was pending, nothing is dispatched while a timeout is pending; once
\* it has fired, exactly one dispatch (searchProfiles and the group search)
\* was made, with the trimmed term of the last call, when that term is not
\* empty, and none when it is empty; no earlier term is dispatched.
C10_Debounced ==
    burst.terms # <<>> =>
        IF timer.pending # {} THEN Dispatched = <<>>
        ELSE IF LastTerm = <<>> THEN Dispatched = <<>>
        ELSE Dispatched = <<[call |-> "searchProfiles", arg |-> LastTerm],
                            [call |-> "searchAssociatedGroupsForReference", arg |-> LastTerm]>>

\* a burst of two calls with different terms has ended in the one dispatch
C10_Witness ==
    /\ Len(burst.terms) >= 2
    /\ trim(burst.terms[1]) # <<>>
    /\ trim(burst.terms[1]) # LastTerm
    /\ timer.pending = {}
    /\ Len(Dispatched) = 2
    /\ Dispatched[1].arg = LastTerm
(***************************************************************************)
(* Paging (SpecPages).                                                     *)
(***************************************************************************)
\* C11: handlePageChange with page > prevPage makes exactly one
\* getProfilesNotInChannel call and sets loadingUsers to true, and when that
\* fetch settles, fulfilled or rejected, loadingUsers is false again;
\* handlePageChange with page <= prevPage makes no call and no state update.
C11_PageAdvance ==
    /\ [](\A page \in Pages, prevPage \in Pages :
             page <= prevPage =>
                 /\ handlePageChangeCalls(page, prevPage) = <<>>
                 /\ handlePageChangeUpdates(page, prevPage) = <<>>)
    /\ [][\A page \in Pages, prevPage \in Pages :
             (page > prevPage /\ handlePageChange(page, prevPage)) =>
                 /\ CallsOf(calls', "getProfilesNotInChannel")
                        = CallsOf(calls, "getProfilesNotInChannel") + 1
                 /\ ApplyAll(state', queue').loadingUsers]_vars
    /\ [][\A i \in 1..Len(inflight), fulfilled \in BOOLEAN :
             (fetchSettled(i, fulfilled) /\ Len(inflight[i].arg) = 2) =>
                 ~ApplyAll(state', queue').loadingUsers]_vars
(***************************************************************************)
(* The ids getOptions excludes (SpecOptions).                              *)
(***************************************************************************)
\* the users of the two channel pools that are active and match the term,
\* and that includeUsers does not bring in
Eligible ==
    {u \in Range(filterProfilesStartingWithTerm(
                     props.profilesNotInCurrentChannel \o props.profilesInCurrentChannel,
                     state.term)) :
        /\ obj[u].delete_at = 0
        /\ \/ ~props.includeUsers.defined
           \/ u \notin Range(props.includeUsers.values)}

\* neither slice of getOptions cuts an option off
NothingCut == Len(dmUsers \o groupsAndUsers) <= MAX_USERS

\* the characters of the first id of profilesNotInCurrentTeam, as ids
FirstNotInTeamIdChars ==
    {<<Ids(props.profilesNotInCurrentTeam)[1][i]>> :
        i \in 1..Len(Ids(props.profilesNotInCurrentTeam)[1])}

C22_LoadingWhileFetching ==
    (\E i \in 1..Len(inflight) : inflight[i].call = "getProfilesNotInChannel")
        => Logical.loadingUsers
(***************************************************************************)
(* The update cycle (SpecCycle).                                           *)
(***************************************************************************)
\* componentDidUpdate has nothing to do: the stored list is the list
\* getOptions returns, and a call of it writes nothing and looks nothing up
Settled ==
    \A values \in {getOptions} :
        /\ isEqual(values, state.optionValues)
        /\ componentDidUpdateUpdates(values) = <<>>
        /\ componentDidUpdateCalls(values) = <<>>

\* C23: with props and term fixed the update cycle terminates.  At most one
\* componentDidUpdate writes optionValues: a write is pending only while the
\* stored list is still the constructor's, it is the only one pending, and
\* at most one lookup is ever made.  Once the write is applied the stored
\* list equals getOptions() and every later componentDidUpdate writes
\* nothing and looks nothing up.
C23_CycleTerminates ==
    /\ Len(queue) <= 1
    /\ Len(calls) <= 1
    /\ queue # <<>> =>
           /\ state.optionValues = InitState.optionValues
           /\ queue = <<Setting([optionValues |-> getOptions])>>
    /\ (queue = <<>> /\ state.optionValues # InitState.optionValues) => Settled

\* the one write has been applied, after its one lookup, and
\* componentDidUpdate has nothing left to do
C23_Witness ==
    /\ queue = <<>>
    /\ state.optionValues # InitState.optionValues
    /\ Len(calls) = 1
    /\ Len(state.optionValues) = MAX_USERS
    /\ Settled
====
